---- MODULE Spec2Model ----
(***************************************************************************)
(* Model of fu-vv-cal (src/main.rs): a course page is fetched, its session *)
(* lines are parsed into Europe/Berlin time spans, the sessions are turned *)
(* into an iCalendar document and the document is written to a file.       *)
(*                                                                         *)
(* Text is modelled as a sequence of one-character strings, so that        *)
(* slicing, splitting, trimming, replacing, parsing and formatting are     *)
(* computed character by character.  All text is ASCII (one byte per       *)
(* character).  Instants are minutes since 1970-01-01T00:00 UTC; the       *)
(* seconds of every instant of the program are zero.                       *)
(***************************************************************************)
EXTENDS Integers, Sequences, FiniteSets, TLC

VARIABLES
    pc,         \* position of main / of the parser harness
    k,          \* index into Courses of the course main is working on
    response,   \* Option of the HTTP response received for course k
    body_str,   \* Option of the value request_course returned
    course,     \* Option of the Course extracted from the document
    calendar,   \* Option of the ICalendar built by to_ical
    files,      \* sequence of the paths written so far, in order
    fetched,    \* sequence of the course indices for which a GET was sent
    outcome,    \* outcome[i]: result of the i-th save_as_ical call of main
    line,       \* parser harness: the parts the schedule line is made of
    date_text,  \* parser harness: the argument of parse_timespan
    date_span   \* parser harness: Option of the result of parse_timespan

vars == <<pc, k, response, body_str, course, calendar, files, fetched,
          outcome, line, date_text, date_span>>

(***************************************************************************)
(* Bounds of the model.                                                    *)
(***************************************************************************)
MaxNodes == 3

(***************************************************************************)
(* Option and Result values.                                               *)
(***************************************************************************)
None == <<>>
Some(x) == <<x>>
IsSome(o) == Len(o) = 1
Unwrap(o) == o[1]

Ok(v) == [tag |-> "Ok", val |-> <<v>>, err |-> "-"]
Err(e) == [tag |-> "Err", val |-> <<>>, err |-> e]
Panic(e) == [tag |-> "Panic", val |-> <<>>, err |-> e]
IsOk(r) == r.tag = "Ok"

(***************************************************************************)
(* Text helpers.                                                           *)
(***************************************************************************)
DigitChar == <<"0", "1", "2", "3", "4", "5", "6", "7", "8", "9">>
IsDigit(c) == \E i \in 1..10 : DigitChar[i] = c
DigitVal(c) == (CHOOSE i \in 1..10 : DigitChar[i] = c) - 1

RECURSIVE Pad(_, _)
\* n written in decimal with at least w digits, zero padded (format "%0w")
Pad(n, w) ==
    IF w <= 1 /\ n < 10 THEN <<DigitChar[n + 1]>>
    ELSE Pad(n \div 10, w - 1) \o <<DigitChar[(n % 10) + 1]>>

IsPrefixAt(s, i, pat) ==
    /\ i + Len(pat) - 1 <= Len(s)
    /\ \A j \in 1..Len(pat) : s[i + j - 1] = pat[j]

DropFirst(s, n) == SubSeq(s, n + 1, Len(s))

RECURSIVE SplitFrom(_, _, _, _)
SplitFrom(s, i, cur, sep) ==
    IF i > Len(s) THEN <<cur>>
    ELSE IF s[i] = sep THEN <<cur>> \o SplitFrom(s, i + 1, <<>>, sep)
    ELSE SplitFrom(s, i + 1, Append(cur, s[i]), sep)

\* str::split(" "): an empty text gives one empty token, two adjacent
\* separators give an empty token between them
Split(s, sep) == SplitFrom(s, 1, <<>>, sep)

IsWhite(c) == c = " "

RECURSIVE TrimStart(_)
TrimStart(s) ==
    IF s # <<>> /\ IsWhite(Head(s)) THEN TrimStart(Tail(s)) ELSE s

RECURSIVE TrimEnd(_)
TrimEnd(s) ==
    IF s # <<>> /\ IsWhite(s[Len(s)]) THEN TrimEnd(SubSeq(s, 1, Len(s) - 1))
    ELSE s

\* str::trim
Trim(s) == TrimEnd(TrimStart(s))

RECURSIVE ReplaceFrom(_, _, _, _)
ReplaceFrom(s, i, pat, to) ==
    IF i > Len(s) THEN <<>>
    ELSE IF IsPrefixAt(s, i, pat)
         THEN to \o ReplaceFrom(s, i + Len(pat), pat, to)
         ELSE <<s[i]>> \o ReplaceFrom(s, i + 1, pat, to)

\* str::replace: every non-overlapping match, left to right
Replace(s, pat, to) == ReplaceFrom(s, 1, pat, to)

(***************************************************************************)
(* Calendar arithmetic (chrono).                                           *)
(***************************************************************************)
IsLeap(y) == (y % 4 = 0 /\ y % 100 # 0) \/ y % 400 = 0

DaysInMonth(y, m) ==
    IF m = 2 THEN (IF IsLeap(y) THEN 29 ELSE 28)
    ELSE IF m \in {4, 6, 9, 11} THEN 30 ELSE 31

\* days from 1970-01-01 to the civil date y-m-d
DaysFromCivil(y, m, d) ==
    LET yy  == IF m <= 2 THEN y - 1 ELSE y
        era == yy \div 400
        yoe == yy - era * 400
        mp  == (m + 9) % 12
        doy == (153 * mp + 2) \div 5 + d - 1
        doe == yoe * 365 + yoe \div 4 - yoe \div 100 + doy
    IN  era * 146097 + doe - 719468

\* the civil date of a day number
CivilFromDays(n) ==
    LET z   == n + 719468
        era == z \div 146097
        doe == z - era * 146097
        yoe == (doe - doe \div 1460 + doe \div 36524 - doe \div 146096) \div 365
        doy == doe - (365 * yoe + yoe \div 4 - yoe \div 100)
        mp  == (5 * doy + 2) \div 153
        d   == doy - (153 * mp + 2) \div 5 + 1
        m   == IF mp < 10 THEN mp + 3 ELSE mp - 9
        y   == yoe + era * 400 + (IF m <= 2 THEN 1 ELSE 0)
    IN  [y |-> y, m |-> m, d |-> d]

\* 0 = Sunday; 1970-01-01 was a Thursday
Weekday(n) == (n + 4) % 7

\* NaiveDate::and_time, as minutes since 1970-01-01T00:00 of the same clock
AndTime(date, time) ==
    DaysFromCivil(date.y, date.m, date.d) * 1440 + time.h * 60 + time.mi

(***************************************************************************)
(* The Europe/Berlin zone (chrono_tz): CET = UTC+60min, CEST = UTC+120min, *)
(* CEST from 01:00 UTC of the last Sunday of March to 01:00 UTC of the     *)
(* last Sunday of October.                                                 *)
(***************************************************************************)
LastSunday(y, m) ==
    CHOOSE d \in 25..31 :
        /\ d <= DaysInMonth(y, m)
        /\ Weekday(DaysFromCivil(y, m, d)) = 0
        /\ d + 7 > DaysInMonth(y, m)

DstStart(y) == DaysFromCivil(y, 3, LastSunday(y, 3)) * 1440 + 60
DstEnd(y) == DaysFromCivil(y, 10, LastSunday(y, 10)) * 1440 + 60

\* offset of Berlin from UTC at the instant utc
OffsetAt(utc) ==
    LET y == CivilFromDays(utc \div 1440).y
    IN  IF DstStart(y) <= utc /\ utc < DstEnd(y) THEN 120 ELSE 60

\* TimeZone::from_local_datetime: the instants whose Berlin wall clock
\* reads local (none in the spring gap, two in the autumn overlap)
FromLocalDatetime(local) ==
    {local - o : o \in {o \in {60, 120} : OffsetAt(local - o) = o}}

\* LocalResult::single
Single(S) == IF Cardinality(S) = 1 THEN Some(CHOOSE u \in S : TRUE) ELSE None

\* DateTime::with_timezone(&Berlin).naive_local
NaiveLocal(utc) == utc + OffsetAt(utc)

(***************************************************************************)
(* chrono parsing of "%d.%m.%Y" and "%R".  A format is a sequence of items *)
(* consumed left to right: "d", "m", "Y", "H", "M" are numeric items, any  *)
(* other item is a literal character.                                      *)
(***************************************************************************)
RECURSIVE CountDigits(_, _)
\* number of leading digits of s, at most max
CountDigits(s, max) ==
    IF max = 0 \/ s = <<>> \/ ~IsDigit(Head(s)) THEN 0
    ELSE 1 + CountDigits(Tail(s), max - 1)

RECURSIVE DecimalValue(_)
DecimalValue(s) ==
    IF s = <<>> THEN 0
    ELSE DecimalValue(SubSeq(s, 1, Len(s) - 1)) * 10 + DigitVal(s[Len(s)])

\* the first n characters of s taken as a number
TakeNumber(s, n) ==
    [ok |-> n >= 1, val |-> DecimalValue(SubSeq(s, 1, n)),
     rest |-> DropFirst(s, n)]

\* scan::number(s, 1, max): one to max digits, greedy
ScanNumber(s, max) == TakeNumber(s, CountDigits(s, max))

\* a literal item of the format string
ScanLiteral(s, c) ==
    [ok |-> s # <<>> /\ Head(s) = c, val |-> 0,
     rest |-> IF s = <<>> THEN s ELSE Tail(s)]

NumericItems == {"d", "m", "Y", "H", "M"}

\* the widest number a numeric item takes
ItemWidth(item) == IF item = "Y" THEN 4 ELSE 2

\* format::Parsed before anything is parsed
EmptyParsed == [item \in NumericItems |-> 0]

RECURSIVE ParseItems(_, _, _)
RECURSIVE AfterItem(_, _, _)
\* format::parse: the items are matched in turn, input left over is an error
ParseItems(s, items, parsed) ==
    IF items = <<>>
    THEN (IF s = <<>> THEN Ok(parsed) ELSE Err("ParseError"))
    ELSE IF Head(items) \in NumericItems
    THEN AfterItem(ScanNumber(s, ItemWidth(Head(items))), items, parsed)
    ELSE AfterItem(ScanLiteral(s, Head(items)), items, parsed)

AfterItem(scanned, items, parsed) ==
    IF ~scanned.ok THEN Err("ParseError")
    ELSE IF Head(items) \in NumericItems
    THEN ParseItems(scanned.rest, Tail(items),
                    [parsed EXCEPT ![Head(items)] = scanned.val])
    ELSE ParseItems(scanned.rest, Tail(items), parsed)

\* Parsed::to_naive_date: the fields must name a day of the calendar
ToNaiveDate(p) ==
    IF ~IsOk(p) THEN p
    ELSE IF /\ Unwrap(p.val)["m"] \in 1..12
            /\ Unwrap(p.val)["d"] >= 1
            /\ Unwrap(p.val)["d"]
                   <= DaysInMonth(Unwrap(p.val)["Y"], Unwrap(p.val)["m"])
    THEN Ok([y |-> Unwrap(p.val)["Y"], m |-> Unwrap(p.val)["m"],
             d |-> Unwrap(p.val)["d"]])
    ELSE Err("ParseError")

\* Parsed::to_naive_time: the fields must name a time of the clock
ToNaiveTime(p) ==
    IF ~IsOk(p) THEN p
    ELSE IF Unwrap(p.val)["H"] <= 23 /\ Unwrap(p.val)["M"] <= 59
    THEN Ok([h |-> Unwrap(p.val)["H"], mi |-> Unwrap(p.val)["M"]])
    ELSE Err("ParseError")

\* NaiveDate::parse_from_str(tok, "%d.%m.%Y")
ParseDate(tok) ==
    ToNaiveDate(ParseItems(tok, <<"d", ".", "m", ".", "Y">>, EmptyParsed))

\* NaiveTime::parse_from_str(tok, "%R"), "%R" being "%H:%M"
ParseTime(tok) == ToNaiveTime(ParseItems(tok, <<"H", ":", "M">>, EmptyParsed))

(***************************************************************************)
(* timespan crate.                                                         *)
(***************************************************************************)
\* NaiveDateTimeSpan::new: an error when the end lies before the start
NaiveDateTimeSpanNew(start, end) ==
    IF start <= end THEN Ok([start |-> start, end |-> end])
    ELSE Err("Ordering")

\* the span of two resolved instants, if both local times resolved
ZonedSpan(s, e) ==
    IF IsSome(s) /\ IsSome(e)
    THEN Ok([start |-> Unwrap(s), end |-> Unwrap(e)])
    ELSE Err("LocalAmbigious")

\* DateTimeSpan::from_local_datetimespan(span, &Berlin)
FromLocalDatetimespan(span) ==
    ZonedSpan(Single(FromLocalDatetime(span.start)),
              Single(FromLocalDatetime(span.end)))

(***************************************************************************)
(* parse_timespan                                                          *)
(***************************************************************************)
\* lines 41-46: the unwrap of the naive span, then the zone conversion
LocalSpan(naive) ==
    IF ~IsOk(naive) THEN Panic("unwrap on Err(Ordering)")
    ELSE FromLocalDatetimespan(Unwrap(naive.val))

\* lines 34-46: the `?` on the three parses, then the span
CombineParsed(date_day, date_start_time, date_end_time) ==
    IF ~IsOk(date_day) THEN Err("ParseError")
    ELSE IF ~IsOk(date_start_time) THEN Err("ParseError")
    ELSE IF ~IsOk(date_end_time) THEN Err("ParseError")
    ELSE LocalSpan(NaiveDateTimeSpanNew(
             AndTime(Unwrap(date_day.val), Unwrap(date_start_time.val)),
             AndTime(Unwrap(date_day.val), Unwrap(date_end_time.val))))

\* lines 30-46: the tokens 0, 1 and 3 are indexed before anything is parsed
ParseTokens(date_split) ==
    IF Len(date_split) < 4 THEN Panic("index out of bounds")
    ELSE CombineParsed(ParseDate(date_split[1]), ParseTime(date_split[2]),
                       ParseTime(date_split[4]))

parse_timespan(text) ==
    IF Len(text) < 4 THEN Panic("slice index out of range")
    ELSE ParseTokens(Split(DropFirst(text, 4), " "))

(***************************************************************************)
(* Schedule lines given to parse_timespan.  A line is made of a four       *)
(* character weekday prefix, a date, a start time and an end time, laid    *)
(* out in one of several shapes; date_text is the line as text.            *)
(***************************************************************************)
Chars(str) ==
    CASE str = "Mo, " -> <<"M", "o", ",", " ">>
      [] str = "So, " -> <<"S", "o", ",", " ">>
      [] str = "Xy; " -> <<"X", "y", ";", " ">>
      [] str = " "    -> <<" ">>
      [] str = " - "  -> <<" ", "-", " ">>
      [] str = " Uhr" -> <<" ", "U", "h", "r">>

DateTok(date) ==
    Pad(date.d, 2) \o <<".">> \o Pad(date.m, 2) \o <<".">> \o Pad(date.y, 4)

IsoDateTok(date) ==
    Pad(date.y, 4) \o <<"-">> \o Pad(date.m, 2) \o <<"-">> \o Pad(date.d, 2)

TimeTok(time) == Pad(time.h, 2) \o <<":">> \o Pad(time.mi, 2)

Date(d, m, y) == [d |-> d, m |-> m, y |-> y]
Time(h, mi) == [h |-> h, mi |-> mi]

Prefixes == {"Mo, ", "So, ", "Xy; "}

InDates ==
    {Date(21, 10, 2019), Date(4, 11, 2019), Date(31, 3, 2019),
     Date(27, 10, 2019), Date(29, 2, 2020), Date(29, 3, 2020),
     Date(31, 11, 2019), Date(29, 2, 2019)}

InTimes ==
    {Time(0, 0), Time(1, 30), Time(2, 0), Time(2, 30), Time(3, 0),
     Time(10, 0), Time(13, 0), Time(23, 59), Time(24, 0), Time(12, 60)}

Shapes ==
    {"normal", "no_end", "no_dash", "extra_token", "double_space",
     "short", "iso_date"}

Lines ==
    [prefix : Prefixes, date : InDates, start : InTimes, end : InTimes,
     shape : Shapes]

Layout(shape, p, d, iso, s, e) ==
    CASE shape = "normal" -> p \o d \o Chars(" ") \o s \o Chars(" - ") \o e
      [] shape = "no_end" -> p \o d \o Chars(" ") \o s \o <<" ", "-">>
      [] shape = "no_dash" -> p \o d \o Chars(" ") \o s \o Chars(" ") \o e
      [] shape = "extra_token" ->
            p \o d \o Chars(" ") \o s \o Chars(" - ") \o e \o Chars(" Uhr")
      [] shape = "double_space" ->
            p \o d \o Chars(" ") \o Chars(" ") \o s \o Chars(" - ") \o e
      [] shape = "short" -> SubSeq(p, 1, 3)
      [] shape = "iso_date" ->
            p \o iso \o Chars(" ") \o s \o Chars(" - ") \o e

Render(l) ==
    Layout(l.shape, Chars(l.prefix), DateTok(l.date), IsoDateTok(l.date),
           TimeTok(l.start), TimeTok(l.end))

ValidDate(date) ==
    date.m \in 1..12 /\ date.d \in 1..DaysInMonth(date.y, date.m)

ValidTime(time) == time.h \in 0..23 /\ time.mi \in 0..59

\* "<wd>, DD.MM.YYYY HH:MM - HH:MM" with a real date and real clock times
WellFormed(l) ==
    /\ l.shape = "normal"
    /\ ValidDate(l.date)
    /\ ValidTime(l.start)
    /\ ValidTime(l.end)

MinuteOfDay(time) == time.h * 60 + time.mi

\* the wall clock reading date+time does not exist (spring) or exists twice
\* (autumn) in Berlin
InGapOrOverlap(date, time) ==
    /\ time.h = 2
    /\ \/ date.m = 3 /\ date.d = LastSunday(date.y, 3)
       \/ date.m = 10 /\ date.d = LastSunday(date.y, 10)

(***************************************************************************)
(* The parser on its own: one schedule line in, one result out.            *)
(***************************************************************************)
NoLine ==
    [prefix |-> "Mo, ", date |-> Date(21, 10, 2019), start |-> Time(10, 0),
     end |-> Time(13, 0), shape |-> "normal"]

InitParse ==
    /\ pc = "line"
    /\ line \in Lines
    /\ date_text = Render(line)
    /\ date_span = None
    /\ k = 1
    /\ response = None
    /\ body_str = None
    /\ course = None
    /\ calendar = None
    /\ files = <<>>
    /\ fetched = <<>>
    /\ outcome = <<>>

ParseTimespan ==
    /\ pc = "line"
    /\ date_span' = Some(parse_timespan(date_text))
    /\ pc' = "parsed"
    /\ UNCHANGED <<k, response, body_str, course, calendar, files, fetched,
                   outcome, line, date_text>>

NextParse == ParseTimespan

SpecParse == InitParse /\ [][NextParse]_vars

Parsed == pc = "parsed"
Result == Unwrap(date_span)
Interval == Unwrap(Result.val)

\* C3: every malformed schedule line (wrong token count, invalid date or
\* time literal, end time equal to or before the start time) makes
\* parse_timespan return a ParseError and no Interval.
C3_MalformedLineIsParseError ==
    (Parsed /\ (\/ ~WellFormed(line)
                \/ MinuteOfDay(line.end) <= MinuteOfDay(line.start)))
        => Result = Err("ParseError")

\* C4: every well-formed line with start < end parses to an Interval whose
\* start and end, read back in Europe/Berlin, are the date combined with the
\* start and end times, whatever the weekday prefix is.
C4_WellFormedLineRoundTrips ==
    (Parsed /\ WellFormed(line)
            /\ MinuteOfDay(line.start) < MinuteOfDay(line.end))
        => /\ IsOk(Result)
           /\ NaiveLocal(Interval.start) = AndTime(line.date, line.start)
           /\ NaiveLocal(Interval.end) = AndTime(line.date, line.end)

\* C8: a well-formed line whose start or end falls in the spring-forward gap
\* or the fall-back overlap of Europe/Berlin is resolved to one Interval.
C8_DstLineResolvesToInterval ==
    (Parsed /\ WellFormed(line)
            /\ MinuteOfDay(line.start) < MinuteOfDay(line.end)
            /\ (\/ InGapOrOverlap(line.date, line.start)
                \/ InGapOrOverlap(line.date, line.end)))
        => IsOk(Result)

(***************************************************************************)
(* Pages.  The HTML parser is not modelled: a page is what the selectors   *)
(* of the program find in it, in document order.                           *)
(*   heading : Option of the text of the first h1 below class "subc"       *)
(*   nodes   : the nodes of class "link_to_details", each with             *)
(*     id    : Option of the value of its id attribute                     *)
(*     date  : Option of the text of its first "course_date_time" child    *)
(***************************************************************************)
LinkPrefix ==
    <<"l", "i", "n", "k", "_", "t", "o", "_",
      "d", "e", "t", "a", "i", "l", "s", "_">>

IdAttrs ==
    {LinkPrefix \o <<"7">>,
     LinkPrefix \o <<"8">>,
     LinkPrefix \o <<"7">> \o LinkPrefix \o <<"8">>}

PageLines ==
    {[prefix |-> "Mo, ", date |-> Date(21, 10, 2019), start |-> Time(10, 0),
      end |-> Time(13, 0), shape |-> "normal"],
     [prefix |-> "Mo, ", date |-> Date(31, 11, 2019), start |-> Time(10, 0),
      end |-> Time(13, 0), shape |-> "normal"]}

\* the text of a date/time element: the line, surrounded by white space
PageText(l) == <<" ">> \o Render(l) \o <<" ", " ">>

Headings == {<<" ", "O", "C", "1", " ">>}

Nodes ==
    [id : {None} \cup {Some(a) : a \in IdAttrs},
     date : {None} \cup {Some(PageText(l)) : l \in PageLines}]

NodeSeqs == UNION {[1..n -> Nodes] : n \in 0..MaxNodes}

Documents ==
    [heading : {None} \cup {Some(h) : h \in Headings}, nodes : NodeSeqs]

(***************************************************************************)
(* Course extraction.                                                      *)
(***************************************************************************)
\* Course::name_from_document
name_from_document(document) ==
    IF ~IsSome(document.heading) THEN Panic("Course has no name/title")
    ELSE Ok(Trim(Unwrap(document.heading)))

\* lines 116-123: the `?` on the parsed span, the id, the event
EventWith(node, span) ==
    IF ~IsOk(span) THEN span
    ELSE IF ~IsSome(node.id) THEN Panic("unwrap on None")
    ELSE Ok([id |-> Replace(Unwrap(node.id), LinkPrefix, <<>>),
             timespan |-> Unwrap(span.val)])

\* one pass of the loop of CourseEvent::all_from_document: the event of a
\* node, or the failure that ends the extraction
EventFromNode(node) ==
    IF ~IsSome(node.date) THEN Panic("unwrap on None")
    ELSE EventWith(node, parse_timespan(Trim(Unwrap(node.date))))

RECURSIVE EventsFromSkipping(_, _)
RECURSIVE PushEventSkipping(_, _, _)
EventsFromSkipping(nodes, events) ==
    IF nodes = <<>> THEN Ok(events)
    ELSE PushEventSkipping(EventFromNode(Head(nodes)), Tail(nodes), events)

PushEventSkipping(r, rest, events) ==
    IF ~IsOk(r) THEN EventsFromSkipping(rest, events)
    ELSE EventsFromSkipping(rest, Append(events, Unwrap(r.val)))

\* a best-effort extraction: nodes that cannot be read are left out
all_from_document_skipping(document) ==
    EventsFromSkipping(document.nodes, <<>>)

RECURSIVE EventsFrom(_, _)
RECURSIVE PushEvent(_, _, _)
\* the loop of CourseEvent::all_from_document over the remaining nodes
EventsFrom(nodes, events) ==
    IF nodes = <<>> THEN Ok(events)
    ELSE PushEvent(EventFromNode(Head(nodes)), Tail(nodes), events)

\* the end of one pass: a failure ends the loop, an event is pushed
PushEvent(r, rest, events) ==
    IF ~IsOk(r) THEN r
    ELSE EventsFrom(rest, Append(events, Unwrap(r.val)))

\* CourseEvent::all_from_document
all_from_document(document) == EventsFrom(document.nodes, <<>>)

\* the struct literal of from_document once both fields are evaluated
NewCourse(name, events) ==
    IF ~IsOk(name) THEN name
    ELSE IF ~IsOk(events) THEN events
    ELSE Ok([name |-> Unwrap(name.val), events |-> Unwrap(events.val)])

\* Course::from_document: the name is extracted first and its failure ends
\* the extraction before the events are looked at
from_document(document) ==
    IF ~IsOk(name_from_document(document)) THEN name_from_document(document)
    ELSE NewCourse(name_from_document(document), all_from_document(document))

(***************************************************************************)
(* Calendar building.                                                      *)
(***************************************************************************)
\* "%Y%m%dT%H%M%SZ" of a civil date and a minute of the day
FormatCivil(date, min) ==
    Pad(date.y, 4) \o Pad(date.m, 2) \o Pad(date.d, 2) \o <<"T">>
    \o Pad(min \div 60, 2) \o Pad(min % 60, 2) \o Pad(0, 2) \o <<"Z">>

\* NaiveDateTime::format("%Y%m%dT%H%M%SZ") of DateTime::naive_utc
FormatUtc(utc) == FormatCivil(CivilFromDays(utc \div 1440), utc % 1440)

\* ics::components::Property::new and the typed properties: a key, a value
\* and a set of parameters, empty on construction
Property(key, value) == [key |-> key, value |-> value, params |-> {}]

ChildText == <<"C", "H", "I", "L", "D">>

own_id(events, event) == event.id

\* the series anchor of to_ical: the id of the first event
first_id(events, event) == events[1].id

\* lines 89-94: Event::new(uid, dtstamp) and the five pushes
EventProperties(uid, start_date, end_date, name, anchor) ==
    <<Property("UID", uid),
      Property("DTSTAMP", start_date),
      Property("DTSTART", start_date),
      Property("DTEND", end_date),
      Property("SUMMARY", name),
      Property("RELATED-TO", anchor),
      Property("RELTYPE", ChildText)>>

\* the body of the loop of to_ical
CalEvent(name, events, event) ==
    EventProperties(event.id, FormatUtc(event.timespan.start),
                    FormatUtc(event.timespan.end), name,
                    first_id(events, event))

NewCalendar(events) ==
    [version |-> "2.0", prodid |-> "ics-rs", events |-> events]

\* a builder that accepts a course without events
to_ical_allowing_empty(c) ==
    Ok(NewCalendar([i \in 1..Len(c.events) |->
                        CalEvent(c.name, c.events, c.events[i])]))

\* Course::to_ical
to_ical(c) ==
    IF c.events = <<>> THEN Panic("unwrap on None")
    ELSE Ok(NewCalendar([i \in 1..Len(c.events) |->
                             CalEvent(c.name, c.events, c.events[i])]))

(***************************************************************************)
(* Fetching.                                                               *)
(***************************************************************************)
Courses ==
    <<[id |-> "524870", semester |-> "498562", path |-> "oc1_vorlesung.ics"],
      [id |-> "524871", semester |-> "498562", path |-> "oc1_uebung.ics"],
      [id |-> "525101", semester |-> "498562", path |-> "bc1_vorlesung.ics"],
      [id |-> "525102", semester |-> "498562", path |-> "bc1_uebung.ics"],
      [id |-> "503925", semester |-> "498562",
       path |-> "botanik_vorlesung.ics"],
      [id |-> "503926", semester |-> "498562",
       path |-> "botanik_seminar_a.ics"],
      [id |-> "503927", semester |-> "498562",
       path |-> "botanik_seminar_b.ics"]>>

Url(c) == "https://www.fu-berlin.de/vv/de/lv/" \o c.id \o "?sm=" \o c.semester

Statuses == {200, 404}

\* StatusCode::is_success
is_success(status) == 200 <= status /\ status < 300

\* what the body stream delivers: a chunk error, bytes that are not UTF-8,
\* or the text of a page
Bodies ==
    {[kind |-> "stream_error", doc |-> None],
     [kind |-> "invalid_utf8", doc |-> None]}
    \cup {[kind |-> "html", doc |-> Some(d)] : d \in Documents}

\* None: the request failed in transport and there is no response
Responses == {None} \cup {Some(r) : r \in [status : Statuses, body : Bodies]}

\* RequestedCourse::request_course, given what the GET came back with
request_course(resp) ==
    IF ~IsSome(resp) THEN Err("hyper::Error")
    ELSE
    LET res == Unwrap(resp)
    IN  IF res.body.kind = "stream_error" THEN Panic("unwrap on chunk error")
        ELSE IF res.body.kind = "invalid_utf8"
        THEN Panic("unwrap on FromUtf8Error")
        ELSE IF ~is_success(res.status) THEN Err("HttpRequestError")
        ELSE Ok(Unwrap(res.body.doc))

(***************************************************************************)
(* main: one save_as_ical call per course, each followed by `?`.           *)
(***************************************************************************)
\* a driver that goes on to the next course whatever the result
ContinueAfter(r, i) == IF i < Len(Courses) THEN "request" ELSE "done"

\* where main goes after the i-th save_as_ical call returned r
AfterCourse(r, i) ==
    IF ~IsOk(r) THEN "failed"
    ELSE IF i < Len(Courses) THEN "request" ELSE "done"

\* the current save_as_ical call ends with result r
Finish(r) ==
    /\ outcome' = Append(outcome, r)
    /\ pc' = AfterCourse(r, k)
    /\ IF AfterCourse(r, k) = "request"
       THEN /\ k' = k + 1
            /\ response' = None
            /\ body_str' = None
            /\ course' = None
            /\ calendar' = None
       ELSE UNCHANGED <<k, response, body_str, course, calendar>>

Init ==
    /\ pc = "request"
    /\ k = 1
    /\ response = None
    /\ body_str = None
    /\ course = None
    /\ calendar = None
    /\ files = <<>>
    /\ fetched = <<>>
    /\ outcome = <<>>
    /\ line = NoLine
    /\ date_text = <<>>
    /\ date_span = None

\* request_course is over: get_as_ical goes on with the text of the page, or
\* the failure ends save_as_ical
Requested(resp, r) ==
    IF IsOk(r)
    THEN /\ response' = resp
         /\ body_str' = Some(Unwrap(r.val))
         /\ pc' = "extract"
         /\ UNCHANGED <<k, course, calendar, outcome>>
    ELSE /\ outcome' = Append(outcome, r)
         /\ pc' = AfterCourse(r, k)
         /\ IF AfterCourse(r, k) = "request"
            THEN k' = k + 1 /\ response' = None
            ELSE k' = k /\ response' = resp
         /\ UNCHANGED <<body_str, course, calendar>>

\* self.request_course().await in get_as_ical, the response being any of
\* those the server can give
RequestCourse ==
    /\ pc = "request"
    /\ \E resp \in Responses : Requested(resp, request_course(resp))
    /\ fetched' = Append(fetched, Url(Courses[k]))
    /\ UNCHANGED <<files, line, date_text, date_span>>

\* the extraction is over: get_as_ical goes on, or `?` ends save_as_ical
Extracted(r) ==
    IF IsOk(r)
    THEN /\ course' = Some(Unwrap(r.val))
         /\ pc' = "build"
         /\ UNCHANGED <<k, response, body_str, calendar, outcome>>
    ELSE Finish(r)

\* Document::from and Course::from_document in get_as_ical
FromDocument ==
    /\ pc = "extract"
    /\ Extracted(from_document(Unwrap(body_str)))
    /\ UNCHANGED <<files, fetched, line, date_text, date_span>>

\* the calendar is built, or the failure ends save_as_ical
Built(r) ==
    IF IsOk(r)
    THEN /\ calendar' = Some(Unwrap(r.val))
         /\ pc' = "save"
         /\ UNCHANGED <<k, response, body_str, course, outcome>>
    ELSE Finish(r)

\* course.to_ical() in get_as_ical
ToIcal ==
    /\ pc = "build"
    /\ Built(to_ical(Unwrap(course)))
    /\ UNCHANGED <<files, fetched, line, date_text, date_span>>

\* calendar.save_file(path) in save_as_ical: the file is written
SaveFile ==
    /\ pc = "save"
    /\ files' = Append(files, Courses[k].path)
    /\ Finish(Ok("unit"))
    /\ UNCHANGED <<fetched, line, date_text, date_span>>

\* calendar.save_file(path) in save_as_ical: the file cannot be written
SaveFileFails ==
    /\ pc = "save"
    /\ Finish(Err("io::Error"))
    /\ UNCHANGED <<files, fetched, line, date_text, date_span>>

Next ==
    \/ RequestCourse
    \/ FromDocument
    \/ ToIcal
    \/ SaveFile
    \/ SaveFileFails

Spec == Init /\ [][Next]_vars

(***************************************************************************)
(* Properties of the pipeline.                                             *)
(***************************************************************************)
Doc == Unwrap(body_str)
TheCourse == Unwrap(course)
TheCalendar == Unwrap(calendar)
LastOutcome == outcome[Len(outcome)]

\* the values of the properties of a calendar event that have the given key
PropValues(ev, key) ==
    {ev[j].value : j \in {j \in 1..Len(ev) : ev[j].key = key}}

NotWritten(path) == \A j \in 1..Len(files) : files[j] # path

\* C1: a Course with a non-empty occurrence list [o1..oN] gives exactly N
\* events in the same order; event i has UID oi.id and SUMMARY the course
\* name, and every event carries RELATED-TO o1.id.
C1_EventsMirrorOccurrences ==
    (IsSome(course) /\ pc # "build" /\ TheCourse.events # <<>>)
        => /\ IsSome(calendar)
           /\ Len(TheCalendar.events) = Len(TheCourse.events)
           /\ \A i \in 1..Len(TheCourse.events) :
                /\ PropValues(TheCalendar.events[i], "UID")
                       = {TheCourse.events[i].id}
                /\ PropValues(TheCalendar.events[i], "SUMMARY")
                       = {TheCourse.name}
                /\ PropValues(TheCalendar.events[i], "RELATED-TO")
                       = {TheCourse.events[1].id}

C1_Witness ==
    /\ IsSome(course)
    /\ IsSome(calendar)
    /\ Len(TheCourse.events) = 3
    /\ TheCourse.events[1].id # TheCourse.events[2].id
    /\ TheCourse.events[1].id # TheCourse.events[3].id
    /\ TheCourse.events[2].id # TheCourse.events[3].id
    /\ Len(TheCalendar.events) = 3

\* C2: building a calendar from a Course without occurrences fails; no
\* calendar is produced and no file is written for the course.
C2_EmptyCourseIsRefused ==
    (IsSome(course) /\ pc # "build" /\ TheCourse.events = <<>>)
        => /\ calendar = None
           /\ pc = "failed"
           /\ Len(outcome) = k
           /\ ~IsOk(LastOutcome)
           /\ NotWritten(Courses[k].path)

C2_Witness ==
    /\ pc = "failed"
    /\ IsSome(course)
    /\ TheCourse.events = <<>>
    /\ calendar = None

\* a node with an id attribute and the text of a well-formed schedule line
\* that ends after it starts
ValidNode(n) ==
    /\ IsSome(n.id)
    /\ IsSome(n.date)
    /\ \E l \in PageLines :
        /\ WellFormed(l)
        /\ MinuteOfDay(l.start) < MinuteOfDay(l.end)
        /\ Unwrap(n.date) = PageText(l)

\* the text without its leading "link_to_details_", the rest as it is
StripLeadingPrefix(s) ==
    IF IsPrefixAt(s, 1, LinkPrefix) THEN DropFirst(s, Len(LinkPrefix)) ELSE s

\* C5: a page with N details-link nodes, each with an id attribute and valid
\* date/time text, gives exactly N occurrences in document order, and
\* occurrence i has the id attribute of node i with the leading prefix
\* "link_to_details_" stripped and the rest unchanged.
C5_OccurrencesMirrorNodes ==
    (/\ IsSome(body_str)
     /\ pc # "extract"
     /\ IsSome(Doc.heading)
     /\ \A i \in 1..Len(Doc.nodes) : ValidNode(Doc.nodes[i]))
        => /\ IsSome(course)
           /\ Len(TheCourse.events) = Len(Doc.nodes)
           /\ \A i \in 1..Len(Doc.nodes) :
                TheCourse.events[i].id
                    = StripLeadingPrefix(Unwrap(Doc.nodes[i].id))

\* the page lacks its heading, or one of its nodes lacks its id attribute or
\* its date/time child, or has a text the parser fails on
Defective(document) ==
    \/ ~IsSome(document.heading)
    \/ \E i \in 1..Len(document.nodes) :
        \/ ~IsSome(document.nodes[i].id)
        \/ ~IsSome(document.nodes[i].date)
        \/ ~IsOk(parse_timespan(Trim(Unwrap(document.nodes[i].date))))

\* C6: extraction is all-or-nothing: from a defective page no Course is
\* returned, the extraction fails.
C6_ExtractionAllOrNothing ==
    (IsSome(body_str) /\ pc # "extract" /\ Defective(Doc))
        => /\ course = None
           /\ pc = "failed"
           /\ Len(outcome) = k
           /\ ~IsOk(LastOutcome)

C6_Witness ==
    /\ pc = "failed"
    /\ IsSome(body_str)
    /\ course = None
    /\ IsSome(Doc.heading)
    /\ Len(Doc.nodes) = 2
    /\ ValidNode(Doc.nodes[1])
    /\ IsSome(Doc.nodes[2].id)
    /\ IsSome(Doc.nodes[2].date)
    /\ ~IsOk(parse_timespan(Trim(Unwrap(Doc.nodes[2].date))))

C9_ReltypeIsParameter ==
    IsSome(calendar)
        => \A i \in 1..Len(TheCalendar.events) :
            LET ev == TheCalendar.events[i]
            IN  /\ \E j \in 1..Len(ev) :
                    /\ ev[j].key = "RELATED-TO"
                    /\ <<"RELTYPE", ChildText>> \in ev[j].params
                /\ \A j \in 1..Len(ev) : ev[j].key # "RELTYPE"

\* C10: a response with a non-success status, whatever its body, makes
\* request_course return HttpRequestError; nothing is extracted and no file
\* is written for the course.
C10_NonSuccessIsHttpRequestError ==
    (IsSome(response) /\ ~is_success(Unwrap(response).status))
        => /\ pc = "failed"
           /\ Len(outcome) = k
           /\ LastOutcome = Err("HttpRequestError")
           /\ body_str = None
           /\ course = None
           /\ NotWritten(Courses[k].path)

====
